---- MODULE Spec2Model ----
(***************************************************************************)
(* The agent orchestration layer of simple-chatbot:                        *)
(*   src/src/main.py            SimpleChatbot.generate_response            *)
(*   src/src/rag_agent.py       RAGAgent.generate_response                 *)
(*   src/src/function_agent.py  FunctionCallerAgent (tool-calling graph)   *)
(*                                                                         *)
(* One user turn is one call of SimpleChatbot.generate_response.  The     *)
(* collaborators (embedding model, vector store, ollama, the chat model    *)
(* bound to the tools) are the environment: each call of one of them       *)
(* either returns a value or raises, chosen with \E.                       *)
(***************************************************************************)
EXTENDS Integers, Sequences, FiniteSets, TLC

VARIABLES
    use_rag_agent,       \* SimpleChatbot.use_rag_agent
    rag_agent,           \* SimpleChatbot.rag_agent is an object (TRUE) or None
    use_function_agent,  \* SimpleChatbot.use_function_agent
    function_agent,      \* SimpleChatbot.function_agent is an object or None
    pc,                  \* position inside generate_response
    user_query,          \* the argument of generate_response
    attempts,            \* the strategies called in this turn, in call order
    response,            \* what generate_response gave its caller
    rag_calls,           \* collaborator calls made by RAGAgent.generate_response
    messages,            \* state["messages"] of the running graph
    node,                \* the graph node scheduled next
    steps,               \* super-steps the graph run has executed
    inference_calls,     \* llm_with_tools.invoke calls of this graph run
    tool_runs,           \* tool executions of this graph run
    tool_rounds,         \* executions of the "tools" node in this graph run
    llm,                 \* how the chat model behaves during this graph run
    invoke_result,       \* what FunctionCallerAgent.invoke gave its caller
    calc_expression,     \* the argument of a direct calculator call
    evaluated,           \* that call passed its argument to eval
    calc_result,         \* what that call gave its caller
    collection,          \* the documents of the vector-store collection
    live,                \* the collection RAGAgent.collection refers to exists
    last,                \* the last RAGAgent operation, its calls and its result
    user_input,          \* chat_loop: the line read, stripped
    loop,                \* chat_loop: where the loop stands
    turn_calls           \* chat_loop: the methods it called for this line

config == <<use_rag_agent, rag_agent, use_function_agent, function_agent>>
graph == <<messages, node, steps, inference_calls, tool_runs, tool_rounds, llm>>
calc == <<calc_expression, evaluated, calc_result>>
store == <<collection, live, last>>
looping == <<user_input, loop, turn_calls>>
vars == <<use_rag_agent, rag_agent, use_function_agent, function_agent, pc,
          user_query, attempts, response, rag_calls, messages, node, steps,
          inference_calls, tool_runs, tool_rounds, llm, invoke_result,
          calc_expression, evaluated, calc_result, collection, live, last,
          user_input, loop, turn_calls>>

----------------------------------------------------------------------------
(* Bounds of the model *)

\* tool-call requests one assistant message may carry
MaxCalls == 2
\* tool-call requests an unconstrained chat model may make in one graph run
MaxRequests == 4
\* documents a store query may return
MaxDocs == 2
\* characters of an expression given to the calculator directly
MaxExprLen == 3
\* documents the collection may hold
MaxStore == 2

(* graph.invoke(initial_state) is called without a config, so the graph runs
   under langgraph's default recursion_limit: 25 super-steps. *)
RecursionLimit == 25

----------------------------------------------------------------------------
(* Values *)

Queries == {"What time is it?", "What is Python?"}
ModelTexts == {"answer A", "answer B"}

\* A text is a pair: the literal prefix an f-string puts in front, and the rest.
Plain(c) == [pre |-> "", body |-> c]
ErrText(prefix, e) == [pre |-> prefix, body |-> e]
IsErrorText(t) == t.pre # ""

\* How a call ends: it returns a text, or an exception leaves it.
Return(t) == [kind |-> "return", text |-> t]
Raise(e) == [kind |-> "raise", text |-> [pre |-> "<exception>", body |-> e]]
NoResult == [kind |-> "none", text |-> [pre |-> "<none>", body |-> ""]]

NoRagCalls == [embed |-> "none", query |-> "none", docs |-> 0, chat |-> "none"]

END == "__end__"

----------------------------------------------------------------------------
(* Tool registry: function_agent.py, get_current_time and calculator *)

\* An expression is the sequence of its characters.
ProductExpr == <<"1", "5", "*", "8">>
ZeroDivExpr == <<"1", "/", "0">>
\* the example of calculator's docstring, line 23
DocExample == <<"2", " ", "+", " ", "3", " ", "*", " ", "4">>
\* an expression eval cannot parse
MalformedExpr == <<"1", "+">>
Expressions == {ProductExpr, ZeroDivExpr}

\* set("0123456789+-*/().\\s"): the last two characters of the literal are a
\* backslash and the letter s.
allowed_chars ==
    {"0", "1", "2", "3", "4", "5", "6", "7", "8", "9",
     "+", "-", "*", "/", "(", ")", ".", "\\", "s"}

\* Python's eval, on expressions written with decimal digits, the letters of
\* Letters, blanks, a backslash and the operators + * ** / //.  The source is
\* compiled first (tokenizer, then parser: any SyntaxError is raised before
\* anything is evaluated) and the tree is then evaluated left to right.
Digits == {"0", "1", "2", "3", "4", "5", "6", "7", "8", "9"}
Letters == {"a", "s"}
DigitValue(c) ==
    CASE c = "0" -> 0 [] c = "1" -> 1 [] c = "2" -> 2 [] c = "3" -> 3
      [] c = "4" -> 4 [] c = "5" -> 5 [] c = "6" -> 6 [] c = "7" -> 7
      [] c = "8" -> 8 [] c = "9" -> 9

\* The end of the run of digits and letters that starts at position i.
RECURSIVE WordEnd(_, _)
WordEnd(e, i) ==
    IF i < Len(e) /\ e[i + 1] \in Digits \cup Letters
    THEN WordEnd(e, i + 1)
    ELSE i

RECURSIVE Decimal(_)
Decimal(w) ==
    IF w = <<>> THEN 0
    ELSE 10 * Decimal(SubSeq(w, 1, Len(w) - 1)) + DigitValue(w[Len(w)])

RECURSIVE Spelling(_)
Spelling(w) == IF w = <<>> THEN "" ELSE w[1] \o Spelling(Tail(w))

Token(t, s, v) == [t |-> t, s |-> s, v |-> v]
BadToken == Token("bad", "", 0)

\* One word: a decimal literal (no letter in it, no leading zero unless it is
\* all zeros), the keyword "as", or a name.
Word(w) ==
    IF w[1] \in Digits
    THEN IF \E i \in 1..Len(w) : w[i] \in Letters THEN BadToken
         ELSE IF Len(w) > 1 /\ w[1] = "0" /\ \E i \in 1..Len(w) : w[i] # "0"
              THEN BadToken
              ELSE Token("num", "", Decimal(w))
    ELSE IF w = <<"a", "s">> THEN Token("keyword", "as", 0)
         ELSE Token("name", Spelling(w), 0)

\* The tokens of e from position i on; a character that starts no token (the
\* backslash: no newline can follow it) gives a bad token.
RECURSIVE Tokens(_, _)
Tokens(e, i) ==
    IF i > Len(e) THEN <<>>
    ELSE IF e[i] = " " THEN Tokens(e, i + 1)
    ELSE IF e[i] \in Digits \cup Letters
         THEN <<Word(SubSeq(e, i, WordEnd(e, i)))>> \o Tokens(e, WordEnd(e, i) + 1)
    ELSE IF e[i] \in {"*", "/"} /\ i < Len(e) /\ e[i + 1] = e[i]
         THEN <<Token("op", e[i] \o e[i], 0)>> \o Tokens(e, i + 2)
    ELSE IF e[i] \in {"+", "*", "/"}
         THEN <<Token("op", e[i], 0)>> \o Tokens(e, i + 1)
    ELSE <<BadToken>>

IsOp(t, i, ops) == i <= Len(t) /\ t[i].t = "op" /\ t[i].s \in ops

Parsed(tree, pos) == [ok |-> TRUE, tree |-> tree, pos |-> pos]
NotParsed == [ok |-> FALSE, tree |-> Token("bad", "", 0), pos |-> 0]
Unary(op, x) == [t |-> "unary", s |-> op, x |-> x]
Binary(op, l, r) == [t |-> "binary", s |-> op, l |-> l, r |-> r]

\* atom: NUMBER | NAME
ParseAtom(t, i) ==
    IF i <= Len(t) /\ t[i].t \in {"num", "name"}
    THEN Parsed(t[i], i + 1)
    ELSE NotParsed

\* factor: '+' factor | power;  power: atom ['**' factor]
RECURSIVE ParseFactor(_, _)
ParseFactor(t, i) ==
    IF IsOp(t, i, {"+"})
    THEN LET x == ParseFactor(t, i + 1)
         IN  IF x.ok THEN Parsed(Unary("+", x.tree), x.pos) ELSE NotParsed
    ELSE LET a == ParseAtom(t, i)
         IN  IF a.ok /\ IsOp(t, a.pos, {"**"})
             THEN LET x == ParseFactor(t, a.pos + 1)
                  IN  IF x.ok THEN Parsed(Binary("**", a.tree, x.tree), x.pos)
                      ELSE NotParsed
             ELSE a

\* term: factor (('*' | '/' | '//') factor)*
RECURSIVE ParseTermRest(_, _, _)
ParseTermRest(t, left, i) ==
    IF IsOp(t, i, {"*", "/", "//"})
    THEN LET x == ParseFactor(t, i + 1)
         IN  IF x.ok THEN ParseTermRest(t, Binary(t[i].s, left, x.tree), x.pos)
             ELSE NotParsed
    ELSE Parsed(left, i)

ParseTerm(t, i) ==
    LET x == ParseFactor(t, i)
    IN  IF x.ok THEN ParseTermRest(t, x.tree, x.pos) ELSE NotParsed

\* arith_expr: term ('+' term)*
RECURSIVE ParseArithRest(_, _, _)
ParseArithRest(t, left, i) ==
    IF IsOp(t, i, {"+"})
    THEN LET x == ParseTerm(t, i + 1)
         IN  IF x.ok THEN ParseArithRest(t, Binary("+", left, x.tree), x.pos)
             ELSE NotParsed
    ELSE Parsed(left, i)

\* eval_input: one expression and nothing after it
Parse(t) ==
    LET x == ParseTerm(t, 1)
        y == IF x.ok THEN ParseArithRest(t, x.tree, x.pos) ELSE NotParsed
    IN  IF y.ok /\ y.pos = Len(t) + 1 THEN y ELSE NotParsed

\* A value: an int, a float whose value is a whole number, or a float whose
\* digits are not modelled (the quotient of a division that leaves a rest).
Number(kind, n) == [ok |-> TRUE, kind |-> kind, n |-> n, exc |-> "", msg |-> ""]
Raised(exc, msg) == [ok |-> FALSE, kind |-> "", n |-> 0, exc |-> exc, msg |-> msg]

RECURSIVE Power(_, _)
Power(b, n) == IF n = 0 THEN 1 ELSE b * Power(b, n - 1)

Apply(op, l, r) ==
    LET kind == IF l.kind = "int" /\ r.kind = "int" /\ op # "/" THEN "int"
                ELSE IF "inexact" \in {l.kind, r.kind} THEN "inexact"
                ELSE "float"
    IN  IF op \in {"/", "//"} /\ r.kind # "inexact" /\ r.n = 0
        THEN Raised("ZeroDivisionError", "division by zero")
        ELSE IF kind = "inexact" THEN Number("inexact", 0)
        ELSE CASE op = "+" -> Number(kind, l.n + r.n)
               [] op = "*" -> Number(kind, l.n * r.n)
               [] op = "**" -> Number(kind, Power(l.n, r.n))
               [] op = "//" -> Number(kind, l.n \div r.n)
               [] op = "/" -> IF l.n % r.n = 0 THEN Number("float", l.n \div r.n)
                              ELSE Number("inexact", 0)

\* Operands are evaluated left to right; the first exception ends the evaluation.
RECURSIVE Evaluate(_)
Evaluate(tree) ==
    CASE tree.t = "num" -> Number("int", tree.v)
      [] tree.t = "name" ->
            Raised("NameError", "name '" \o tree.s \o "' is not defined")
      [] tree.t = "unary" -> Evaluate(tree.x)
      [] tree.t = "binary" ->
            LET l == Evaluate(tree.l)
            IN  IF ~ l.ok THEN l
                ELSE LET r == Evaluate(tree.r)
                     IN  IF ~ r.ok THEN r ELSE Apply(tree.s, l, r)

\* str(result)
str(x) ==
    CASE x.kind = "int" -> ToString(x.n)
      [] x.kind = "float" -> ToString(x.n) \o ".0"
      [] x.kind = "inexact" -> "<float>"

\* eval(expression): the value as text, or the exception and its message.
eval(expression) ==
    LET tree == Parse(Tokens(expression, 1))
        x == IF tree.ok THEN Evaluate(tree.tree)
             ELSE Raised("SyntaxError", "invalid syntax (<string>, line 1)")
    IN  IF x.ok THEN [ok |-> TRUE, exc |-> "", text |-> str(x)]
        ELSE [ok |-> FALSE, exc |-> x.exc, text |-> x.msg]

\* calculator, line 28: every character of the expression is in allowed_chars.
passes_whitelist(expression) ==
    \A i \in 1..Len(expression) : expression[i] \in allowed_chars

\* Faulty variant of CalculatorCatch: the message without the "Error: " prefix.
CalculatorCatchBare(e) == Plain(e)

\* calculator, lines 33-34: every exception of eval becomes a text.
CalculatorCatch(e) == ErrText("Error: ", e)

\* What the tool returns: the value as text, or an "Error: ..." text.
calculator(expression) ==
    IF ~ passes_whitelist(expression)
    THEN ErrText("Error: ", "Invalid characters in expression")
    ELSE IF eval(expression).ok
         THEN Plain(eval(expression).text)
         ELSE CalculatorCatch(eval(expression).text)

\* datetime.now().strftime("%Y-%m-%d %H:%M:%S"): some timestamp text.
get_current_time == Plain("YYYY-MM-DD HH:MM:SS")

\* The tool a request names, run on the request's arguments.
RunTool(request) ==
    IF request.name = "calculator"
    THEN calculator(request.args)
    ELSE get_current_time

\* What the chat model may ask for: self.tools, with arguments.
Requestable ==
    {[name |-> "get_current_time", args |-> <<>>]}
        \cup {[name |-> "calculator", args |-> e] : e \in Expressions}

----------------------------------------------------------------------------
(* Messages of the graph state *)

SystemMessage ==
    [role |-> "system", content |-> Plain("tool policy"),
     tool_calls |-> <<>>, tool_call_id |-> 0]
HumanMessage(q) ==
    [role |-> "user", content |-> Plain(q),
     tool_calls |-> <<>>, tool_call_id |-> 0]
AIMessage(c, calls) ==
    [role |-> "assistant", content |-> Plain(c),
     tool_calls |-> calls, tool_call_id |-> 0]
ToolMessage(c, id) ==
    [role |-> "tool", content |-> c, tool_calls |-> <<>>, tool_call_id |-> id]

IsAssistant(m) == m.role = "assistant"
IsTool(m) == m.role = "tool"

RECURSIVE RequestsIn(_)
\* The number of tool-call requests carried by the messages so far.
RequestsIn(msgs) ==
    IF msgs = <<>> THEN 0
    ELSE Len(msgs[Len(msgs)].tool_calls) + RequestsIn(SubSeq(msgs, 1, Len(msgs) - 1))

\* The chat-model wrapper gives every tool call a fresh id (a uuid4): here the
\* ids count up over the graph run.
WithIds(msgs, kinds) ==
    [i \in 1..Len(kinds) |->
        [id |-> RequestsIn(msgs) + i, name |-> kinds[i].name, args |-> kinds[i].args]]

\* The responses llm_with_tools.invoke(messages) may return.
FinalResponses == {AIMessage(c, <<>>) : c \in ModelTexts}
ToolResponses(msgs) ==
    {AIMessage("", WithIds(msgs, kinds)) :
        kinds \in UNION {[1..n -> Requestable] :
                            n \in {k \in 1..MaxCalls :
                                     RequestsIn(msgs) + k <= MaxRequests}}}
GreedyResponse(msgs) ==
    AIMessage("", WithIds(msgs, <<[name |-> "get_current_time", args |-> <<>>]>>))

\* llm = "always_tools" is the chat model that asks for a tool on every response;
\* llm = "any" is every other chat model, making at most MaxRequests requests.
ModelResponses(msgs, behaviour) ==
    IF behaviour = "always_tools"
    THEN {GreedyResponse(msgs)}
    ELSE FinalResponses \cup ToolResponses(msgs)

----------------------------------------------------------------------------
(* The graph of FunctionCallerAgent._create_graph *)

\* Faulty variant of should_continue: the tool calls are not inspected.
should_continue_always_tools(msgs) == "tools"

\* should_continue: "tools" when the last message carries tool calls, else END.
should_continue(msgs) ==
    IF msgs[Len(msgs)].tool_calls # <<>> THEN "tools" ELSE END

\* Faulty variants of ToolsEdge: the edge leads back to "tools", or to END.
ToolsEdgeSelfLoop == "tools"
ToolsEdgeToEnd == END

\* workflow.add_edge("tools", "agent")
ToolsEdge == "agent"

\* ToolNode reads the tool calls of the latest assistant message.
LatestToolCalls(msgs) ==
    LET ai == SelectSeq(msgs, IsAssistant)
    IN  IF ai = <<>> THEN <<>> ELSE ai[Len(ai)].tool_calls

\* ToolNode(self.tools): one tool message per request, in the requests' order,
\* each carrying the tool's output and the request's id.
ToolOutputs(requests) ==
    [i \in 1..Len(requests) |-> ToolMessage(RunTool(requests[i]), requests[i].id)]

\* Faulty variant of OutOfSteps: one super-step too many.
OutOfStepsLate(n) == n > RecursionLimit

\* The graph run is out of super-steps: graph.invoke raises GraphRecursionError.
OutOfSteps(n) == n >= RecursionLimit

\* Faulty variant of FinalMessage: the first message instead of the last.
FinalMessageFirst(msgs) == msgs[1]

\* invoke, lines 108-109: the content of the last message of the final state.
FinalMessage(msgs) == msgs[Len(msgs)]
\* Faulty variant of InvokeCatch: the exception is not caught.
InvokeReraises(e) == Raise(e)

\* invoke, lines 111-112: every exception becomes a text.
InvokeCatch(e) == Return(ErrText("Error processing request: ", e))

----------------------------------------------------------------------------
(* SimpleChatbot.generate_response and RAGAgent.generate_response *)

\* Faulty variant of RagCatch: the exception is not caught.
RagCatchReraises(e) == Raise(e)

\* rag_agent.py lines 186-187: every exception becomes a text.
RagCatch(e) == Return(ErrText("Error generating RAG response: ", e))

\* RAGAgent.generate_response(query) with include_context = True: the embedding
\* call, the store query and the ollama call, each returning or raising.
RagGenerateResponse(embed_ok, query_ok, chat_ok, content) ==
    IF ~embed_ok THEN RagCatch("embedding failed")
    ELSE IF ~query_ok THEN RagCatch("store query failed")
    ELSE IF ~chat_ok THEN RagCatch("ollama failed")
    ELSE Return(Plain(content))

\* The collaborator calls that RAGAgent.generate_response made.
RagCallLog(embed_ok, query_ok, chat_ok, ndocs) ==
    [embed |-> IF embed_ok THEN "ok" ELSE "raise",
     query |-> IF ~embed_ok THEN "none" ELSE IF query_ok THEN "ok" ELSE "raise",
     docs |-> IF embed_ok /\ query_ok THEN ndocs ELSE 0,
     chat |-> IF ~(embed_ok /\ query_ok) THEN "none"
              ELSE IF chat_ok THEN "ok" ELSE "raise"]

\* Faulty variant of ChatCatch: the exception is not caught.
ChatCatchReraises(e) == Raise(e)

\* main.py lines 65-66: every exception becomes a text.
ChatCatch(e) == Return(ErrText("Error generating response: ", e))

\* main.py lines 59-66: the plain ollama.chat call.
RegularChat(chat_ok, content) ==
    IF chat_ok THEN Return(Plain(content)) ELSE ChatCatch("ollama failed")

\* main.py lines 44-49: return what the RAG agent returned; fall through when
\* it raised.
AfterRag(r) == IF r.kind = "return" THEN "done" ELSE "try_function"

\* Faulty variant of AfterFunction: the result is not returned.
AfterFunctionFallsThrough(r) == "try_chat"

\* main.py lines 53-56: the same for the function agent.
AfterFunction(r) == IF r.kind = "return" THEN "done" ELSE "try_chat"
\* main.py lines 59-66: the last strategy returns, or its exception leaves
\* generate_response.
AfterChat(r) == IF r.kind = "return" THEN "done" ELSE "raised"

Attempt(strategy, r, failed) ==
    [strategy |-> strategy, result |-> r, failed |-> failed]

----------------------------------------------------------------------------
(* RAGAgent, the document store adapter: rag_agent.py *)

\* list_documents, line 201: the length of a preview
PreviewLen == 200
\* RAGAgent.__init__, line 20: the default of top_k
top_k == 3

\* A text is the sequence of its characters.
Run(c, n) == [i \in 1..n |-> c]
EmptyDoc == <<>>
SpacesDoc == <<" ", " ">>
ShortDoc == <<"a", "b">>
BoundaryDoc == Run("a", PreviewLen)
LongDoc == Run("a", PreviewLen) \o <<"b">>
\* the texts given to add_document
Contents == {EmptyDoc, SpacesDoc, ShortDoc, LongDoc}
StoreQueries == {<<"a">>, <<"b", "b">>}
\* what ollama answers in generate_response, line 184
RagAnswers == {"answer A"}

\* str.strip(): leading and trailing whitespace removed.
Whitespace == {" ", "\t", "\n"}
RECURSIVE lstrip(_)
lstrip(text) ==
    IF text # <<>> /\ text[1] \in Whitespace THEN lstrip(Tail(text)) ELSE text
RECURSIVE rstrip(_)
rstrip(text) ==
    IF text # <<>> /\ text[Len(text)] \in Whitespace
    THEN rstrip(SubSeq(text, 1, Len(text) - 1))
    ELSE text
\* Faulty variant of strip: the text is left as it is.
strip_nothing(text) == text

strip(text) == rstrip(lstrip(text))

\* doc_id: Optional[str] = None
None == "<None>"
\* ids a caller passes (the tests pass f"sample_{i}")
GivenIds == {"sample_0"}

\* add_document, line 55: f"doc_{self.collection.count()}"
GeneratedId(count) == "doc_" \o ToString(count)
\* add_document_from_file, line 103: f"file_{file_path.stem}_{self.collection.count()}"
FileId(stem, count) == "file_" \o stem \o "_" \o ToString(count)

\* Paths, as Path(file_path) splits them; the files that exist and their text.
NotesFile == [stem |-> "notes", suffix |-> ".txt"]
BlankFile == [stem |-> "blank", suffix |-> ".txt"]
MissingFile == [stem |-> "missing", suffix |-> ".md"]
Paths == {NotesFile, BlankFile, MissingFile}
Exists(path) == path \in {NotesFile, BlankFile}
ReadFile(path) == IF path = NotesFile THEN BoundaryDoc ELSE SpacesDoc

\* A metadata dict is the set of its items.
NoMetadata == {}
\* add_document_from_file, lines 95-101
FileMetadata(path) ==
    {<<"source", path.stem \o path.suffix>>,
     <<"filename", path.stem \o path.suffix>>,
     <<"file_type", path.suffix>>}
\* dict.get(key, default)
Get(metadata, key, default) ==
    IF \E item \in metadata : item[1] = key
    THEN (CHOOSE item \in metadata : item[1] = key)[2]
    ELSE default

\* embedding_model.encode(text): a vector, here of one dimension; and the
\* collection's distance between two vectors.
Embed(text) == Cardinality({i \in 1..Len(text) : text[i] = "a"})
Distance(u, v) == (u - v) * (u - v)

\* What the collection stores for one id.
Stored(id, content, metadata) ==
    [id |-> id, content |-> content, metadata |-> metadata,
     embedding |-> Embed(content)]
HasId(docs, id) == \E i \in 1..Len(docs) : docs[i].id = id

\* collection.query(query_embeddings=[qe], n_results=k): the k nearest stored
\* documents (all of them when there are fewer), nearest first, as columns.
\* Documents at the same distance come in any order.
Nearest(docs, qe, k) ==
    LET n == IF Len(docs) < k THEN Len(docs) ELSE k
        d(i) == Distance(qe, docs[i].embedding)
    IN  {r \in [1..n -> 1..Len(docs)] :
            /\ \A i, j \in 1..n : i < j => (r[i] # r[j] /\ d(r[i]) <= d(r[j]))
            /\ \A x \in 1..Len(docs) :
                  (\A i \in 1..n : r[i] # x) => \A i \in 1..n : d(r[i]) <= d(x)}
QueryResults(docs, qe, r) ==
    [ids |-> [i \in 1..Len(r) |-> docs[r[i]].id],
     documents |-> [i \in 1..Len(r) |-> docs[r[i]].content],
     metadatas |-> [i \in 1..Len(r) |-> docs[r[i]].metadata],
     distances |-> [i \in 1..Len(r) |-> Distance(qe, docs[r[i]].embedding)]]

\* Faulty variant of FormatResults: the rows in reverse order.
FormatResultsReversed(results) ==
    [i \in 1..Len(results.documents) |->
        LET j == Len(results.documents) + 1 - i
        IN  [content |-> results.documents[j],
             metadata |-> results.metadatas[j],
             distance |-> results.distances[j],
             id |-> results.ids[j]]]

\* retrieve_documents, lines 121-142: one dict per returned document, in the
\* order of the results.
FormatResults(results) ==
    [i \in 1..Len(results.documents) |->
        [content |-> results.documents[i],
         metadata |-> results.metadatas[i],
         distance |-> results.distances[i],
         id |-> results.ids[i]]]

\* list_documents, line 201: doc[:200] + "..." if len(doc) > 200 else doc
Preview(doc) ==
    IF Len(doc) > PreviewLen
    THEN SubSeq(doc, 1, PreviewLen) \o <<".", ".", ".">>
    ELSE doc

\* list_documents, lines 195-208: one dict per stored document.
Summaries(docs) ==
    [i \in 1..Len(docs) |->
        [id |-> docs[i].id,
         content |-> Preview(docs[i].content),
         metadata |-> docs[i].metadata]]

\* Faulty variant of ContextParts: only the nearest document is quoted.
ContextPartsFirstOnly(relevant_docs) ==
    [i \in 1..(IF relevant_docs = <<>> THEN 0 ELSE 1) |->
        [source |-> Get(relevant_docs[i].metadata, "source", "unknown"),
         content |-> relevant_docs[i].content]]

\* generate_response, lines 153-161: the context parts, one per document.
ContextParts(relevant_docs) ==
    [i \in 1..Len(relevant_docs) |->
        [source |-> Get(relevant_docs[i].metadata, "source", "unknown"),
         content |-> relevant_docs[i].content]]
\* generate_response, lines 164-176: the context template around the parts and
\* the question, or the bare query.
Prompt(query, parts) ==
    IF parts # <<>>
    THEN [template |-> "context", context |-> parts, question |-> query]
    ELSE [template |-> "bare", context |-> <<>>, question |-> query]

\* get_collection_stats, lines 240-244
Stats(count) ==
    [total_documents |-> count, collection_name |-> "documents",
     embedding_model |-> "dimension"]

\* One operation of the adapter: its arguments, how it ended, the number of
\* calls it made to the embedding model, to the collection (count, add, and
\* the other methods) and to ollama, the call that raised ("none" when none
\* did), the prompt it sent to ollama, and the number of documents the
\* collection held when it began.
Gives(value) == [kind |-> "return", value |-> value, exc |-> ""]
Throws(exc) == [kind |-> "raise", value |-> <<>>, exc |-> exc]
Calls(embed, count, add, other, chat, raised) ==
    [embed |-> embed, count |-> count, add |-> add, other |-> other,
     chat |-> chat, raised |-> raised]
NoCalls == Calls(0, 0, 0, 0, 0, "none")
Operation(op, args, result, calls, prompt, before) ==
    [op |-> op, args |-> args, result |-> result, calls |-> calls,
     prompt |-> prompt, before |-> before]
NoOperation == Operation("none", <<>>, Gives(<<>>), NoCalls, <<>>, 0)

----------------------------------------------------------------------------
(* The operations of RAGAgent.  Every call of a collaborator (the embedding
   model, the collection, the chroma client, the file system, ollama) returns
   or raises; env says which.  A collection that was deleted and not created
   again (live = FALSE) raises on every call. *)

Outcome(docs, result, calls) == [docs |-> docs, result |-> result, calls |-> calls]

\* Faulty variant of collection_add: an id that is already stored gets the new
\* content (an upsert).
collection_add_upserts(docs, id, content, metadata, duplicate) ==
    IF ~HasId(docs, id)
    THEN [docs |-> Append(docs, Stored(id, content, metadata)), raised |-> FALSE]
    ELSE [docs |-> [i \in 1..Len(docs) |->
                      IF docs[i].id = id THEN Stored(id, content, metadata)
                      ELSE docs[i]],
          raised |-> FALSE]

\* collection.add of one document: an id that is already stored is not stored
\* again; depending on the chroma version the call says nothing or raises.
collection_add(docs, id, content, metadata, duplicate) ==
    IF ~HasId(docs, id)
    THEN [docs |-> Append(docs, Stored(id, content, metadata)), raised |-> FALSE]
    ELSE [docs |-> docs, raised |-> duplicate = "raises"]

\* add_document, lines 51-71.  No exception is caught here.
add_document(docs, alive, content, metadata, doc_id, env) ==
    LET counted == IF doc_id = None THEN 1 ELSE 0
        id == IF doc_id = None THEN GeneratedId(Len(docs)) ELSE doc_id
        added == collection_add(docs, id, content, metadata, env.duplicate)
    IN  IF strip(content) = <<>>
        THEN Outcome(docs, Throws("ValueError"), NoCalls)
        ELSE IF doc_id = None /\ ~(alive /\ env.count_ok)
        THEN Outcome(docs, Throws("StoreError"), Calls(0, 1, 0, 0, 0, "count"))
        ELSE IF ~env.embed_ok
        THEN Outcome(docs, Throws("EmbeddingError"),
                     Calls(1, counted, 0, 0, 0, "embed"))
        ELSE IF ~(alive /\ env.add_ok) \/ added.raised
        THEN Outcome(docs, Throws("StoreError"),
                     Calls(1, counted, 1, 0, 0, "add"))
        ELSE Outcome(added.docs, Gives(id), Calls(1, counted, 1, 0, 0, "none"))

\* add_document_from_file, lines 77-104.  No exception is caught here either.
add_document_from_file(docs, alive, path, env) ==
    LET inner == add_document(docs, alive, ReadFile(path), FileMetadata(path),
                              FileId(path.stem, Len(docs)), env)
    IN  IF ~Exists(path)
        THEN Outcome(docs, Throws("FileNotFoundError"),
                     Calls(0, 0, 0, 0, 0, "exists"))
        ELSE IF ~env.read_ok
        THEN Outcome(docs, Throws("OSError"), Calls(0, 0, 0, 0, 0, "read"))
        ELSE IF ~(alive /\ env.count_ok)
        THEN Outcome(docs, Throws("StoreError"), Calls(0, 1, 0, 0, 0, "count"))
        ELSE Outcome(inner.docs, inner.result,
                     [inner.calls EXCEPT !.count = 1])

\* retrieve_documents, lines 108-142: the possible outcomes (documents at the
\* same distance may come in either order).  No exception is caught here.
retrieve_documents(docs, alive, query, k, env) ==
    IF ~env.embed_ok
    THEN {Outcome(docs, Throws("EmbeddingError"), Calls(1, 0, 0, 0, 0, "embed"))}
    ELSE IF ~(alive /\ env.query_ok)
    THEN {Outcome(docs, Throws("StoreError"), Calls(1, 0, 0, 1, 0, "query"))}
    ELSE {Outcome(docs,
                  Gives(FormatResults(QueryResults(docs, Embed(query), r))),
                  Calls(1, 0, 0, 1, 0, "none")) :
            r \in Nearest(docs, Embed(query), k)}

\* Faulty variant of InferenceCalls: ollama is called whatever happened before.
InferenceCallsAlways(retrieved) == 1

\* generate_response, lines 146-187: the ollama.chat call at line 179 is inside
\* the try block, after the retrieval: an exception of the retrieval skips it.
InferenceCalls(retrieved) == IF retrieved THEN 1 ELSE 0

\* Faulty variants of the except branches: the exception is not caught.
ListCatchReraises == Throws("StoreError")

\* list_documents, lines 209-211
ListCatch == Gives(<<>>)
\* delete_document, lines 218-220
DeleteCatch == Gives(FALSE)
\* clear_collection, lines 232-234
ClearCatch == Gives(FALSE)
\* get_collection_stats, lines 245-246
StatsCatch(e) == Gives([error |-> e])

\* Faulty variant of create_collection: the documents are kept.
create_collection_keeps(docs) == docs

\* chroma_client.create_collection(name): a new collection, empty.
create_collection(docs) == <<>>

\* collection.delete(ids=[doc_id]): the document with that id, if any, goes.
collection_delete(docs, id) ==
    LET keep(d) == d.id # id IN SelectSeq(docs, keep)

Ids(docs) == {docs[i].id : i \in 1..Len(docs)}

----------------------------------------------------------------------------
(* State machine *)

chatbot == <<config, pc, user_query, attempts, response, rag_calls, graph,
             invoke_result>>

\* No calculator call has been made outside a graph run.
NoCalculatorCall ==
    /\ calc_expression = <<>>
    /\ evaluated = FALSE
    /\ calc_result = NoResult

\* No RAGAgent has been constructed.
NoStoreOperation ==
    /\ collection = <<>>
    /\ live = TRUE
    /\ last = NoOperation

\* chat_loop has not been called.
NoLoop ==
    /\ user_input = <<>>
    /\ loop = "none"
    /\ turn_calls = <<>>

\* SimpleChatbot.__init__: an agent object exists only when its flag is set (and
\* its import succeeded).
Init ==
    /\ use_rag_agent \in BOOLEAN
    /\ rag_agent \in BOOLEAN
    /\ rag_agent => use_rag_agent
    /\ use_function_agent \in BOOLEAN
    /\ function_agent \in BOOLEAN
    /\ function_agent => use_function_agent
    /\ pc = "idle"
    /\ user_query = ""
    /\ attempts = <<>>
    /\ response = NoResult
    /\ rag_calls = NoRagCalls
    /\ messages = <<>>
    /\ node = "none"
    /\ steps = 0
    /\ inference_calls = 0
    /\ tool_runs = 0
    /\ tool_rounds = 0
    /\ llm = "any"
    /\ invoke_result = NoResult
    /\ NoCalculatorCall
    /\ NoStoreOperation
    /\ NoLoop

\* chat_loop line 103: generate_response(user_input) is called.
StartTurn ==
    /\ pc \in {"idle", "done"}
    /\ \E q \in Queries : user_query' = q
    /\ pc' = "try_rag"
    /\ attempts' = <<>>
    /\ response' = NoResult
    /\ rag_calls' = NoRagCalls
    /\ messages' = <<>>
    /\ node' = "none"
    /\ steps' = 0
    /\ inference_calls' = 0
    /\ tool_runs' = 0
    /\ tool_rounds' = 0
    /\ llm' = "any"
    /\ invoke_result' = NoResult
    /\ UNCHANGED config
    /\ UNCHANGED <<calc, store, looping>>

\* main.py lines 43-49: the RAG agent is enabled and is called.
CallRag ==
    /\ pc = "try_rag"
    /\ use_rag_agent /\ rag_agent
    /\ \E embed_ok, query_ok, chat_ok \in BOOLEAN, ndocs \in 0..MaxDocs,
          content \in ModelTexts :
          LET r == RagGenerateResponse(embed_ok, query_ok, chat_ok, content)
              failed == ~(embed_ok /\ query_ok /\ chat_ok)
          IN  /\ rag_calls' = RagCallLog(embed_ok, query_ok, chat_ok, ndocs)
              /\ attempts' = Append(attempts, Attempt("rag", r, failed))
              /\ pc' = AfterRag(r)
              /\ response' = IF AfterRag(r) = "done" THEN r ELSE response
    /\ UNCHANGED <<config, user_query, graph, invoke_result>>
    /\ UNCHANGED <<calc, store, looping>>

\* main.py line 43: the RAG agent is not enabled or not there.
SkipRag ==
    /\ pc = "try_rag"
    /\ ~(use_rag_agent /\ rag_agent)
    /\ pc' = "try_function"
    /\ UNCHANGED <<config, user_query, attempts, response, rag_calls, graph,
                   invoke_result>>
    /\ UNCHANGED <<calc, store, looping>>

\* Faulty variant of CallFunctionAgent: the new run starts from the messages of
\* the run before, with the new question added.
CallFunctionAgentKeepsMessages ==
    /\ pc = "try_function"
    /\ use_function_agent /\ function_agent
    /\ pc' = "in_function"
    /\ attempts' = Append(attempts, Attempt("function", NoResult, FALSE))
    /\ messages' = IF messages = <<>>
                    THEN <<SystemMessage, HumanMessage(user_query)>>
                    ELSE Append(messages, HumanMessage(user_query))
    /\ node' = "agent"
    /\ steps' = 0
    /\ inference_calls' = 0
    /\ tool_runs' = 0
    /\ tool_rounds' = 0
    /\ llm' \in {"any", "always_tools"}
    /\ invoke_result' = NoResult
    /\ UNCHANGED <<config, user_query, response, rag_calls>>
    /\ UNCHANGED <<calc, store, looping>>

\* main.py lines 52-54 and function_agent.py lines 90-105: invoke builds the
\* initial state and starts the graph at "agent".
CallFunctionAgent ==
    /\ pc = "try_function"
    /\ use_function_agent /\ function_agent
    /\ pc' = "in_function"
    /\ attempts' = Append(attempts, Attempt("function", NoResult, FALSE))
    /\ messages' = <<SystemMessage, HumanMessage(user_query)>>
    /\ node' = "agent"
    /\ steps' = 0
    /\ inference_calls' = 0
    /\ tool_runs' = 0
    /\ tool_rounds' = 0
    /\ llm' \in {"any", "always_tools"}
    /\ invoke_result' = NoResult
    /\ UNCHANGED <<config, user_query, response, rag_calls>>
    /\ UNCHANGED <<calc, store, looping>>

\* main.py line 52: the function agent is not enabled or not there.
SkipFunction ==
    /\ pc = "try_function"
    /\ ~(use_function_agent /\ function_agent)
    /\ pc' = "try_chat"
    /\ UNCHANGED <<config, user_query, attempts, response, rag_calls, graph,
                   invoke_result>>
    /\ UNCHANGED <<calc, store, looping>>

\* invoke returns r to generate_response, which returns it or falls through.
FinishInvoke(r, failed) ==
    /\ invoke_result' = r
    /\ attempts' = [attempts EXCEPT ![Len(attempts)] = Attempt("function", r, failed)]
    /\ pc' = AfterFunction(r)
    /\ response' = IF AfterFunction(r) = "done" THEN r ELSE response

\* The "agent" node, call_model: the model answers, the answer is appended, and
\* should_continue picks the next node.
AgentNode ==
    /\ pc = "in_function"
    /\ node = "agent"
    /\ ~OutOfSteps(steps)
    /\ \E m \in ModelResponses(messages, llm) :
          /\ messages' = Append(messages, m)
          /\ node' = should_continue(Append(messages, m))
    /\ steps' = steps + 1
    /\ inference_calls' = inference_calls + 1
    /\ UNCHANGED <<config, pc, user_query, attempts, response, rag_calls,
                   tool_runs, tool_rounds, llm, invoke_result>>
    /\ UNCHANGED <<calc, store, looping>>

\* The "agent" node, call_model: llm_with_tools.invoke raises; the exception
\* leaves graph.invoke and is caught in invoke.
ModelRaises ==
    /\ pc = "in_function"
    /\ node = "agent"
    /\ ~OutOfSteps(steps)
    /\ llm = "any"
    /\ inference_calls' = inference_calls + 1
    /\ node' = "aborted"
    /\ FinishInvoke(InvokeCatch("model call failed"), TRUE)
    /\ UNCHANGED <<config, user_query, rag_calls, messages, steps, tool_runs,
                   tool_rounds, llm>>
    /\ UNCHANGED <<calc, store, looping>>

\* The "tools" node: every requested tool runs and its message is appended; the
\* edge out of "tools" picks the next node.
ToolsNode ==
    /\ pc = "in_function"
    /\ node = "tools"
    /\ ~OutOfSteps(steps)
    /\ messages' = messages \o ToolOutputs(LatestToolCalls(messages))
    /\ tool_runs' = tool_runs + Len(LatestToolCalls(messages))
    /\ tool_rounds' = tool_rounds + 1
    /\ steps' = steps + 1
    /\ node' = ToolsEdge
    /\ UNCHANGED <<config, pc, user_query, attempts, response, rag_calls,
                   inference_calls, llm, invoke_result>>
    /\ UNCHANGED <<calc, store, looping>>

\* A node is scheduled but the run is out of super-steps: graph.invoke raises
\* GraphRecursionError, caught in invoke.
RecursionLimitHit ==
    /\ pc = "in_function"
    /\ node \in {"agent", "tools"}
    /\ OutOfSteps(steps)
    /\ node' = "aborted"
    /\ FinishInvoke(InvokeCatch("GraphRecursionError"), TRUE)
    /\ UNCHANGED <<config, user_query, rag_calls, messages, steps,
                   inference_calls, tool_runs, tool_rounds, llm>>
    /\ UNCHANGED <<calc, store, looping>>

\* The graph reached END: invoke returns the content of the last message.
GraphEnd ==
    /\ pc = "in_function"
    /\ node = END
    /\ FinishInvoke(Return(FinalMessage(messages).content), FALSE)
    /\ UNCHANGED <<config, user_query, rag_calls, graph>>
    /\ UNCHANGED <<calc, store, looping>>

\* main.py lines 59-66: the plain chat call.
CallChat ==
    /\ pc = "try_chat"
    /\ \E chat_ok \in BOOLEAN, content \in ModelTexts :
          LET r == RegularChat(chat_ok, content)
          IN  /\ attempts' = Append(attempts, Attempt("chat", r, ~chat_ok))
              /\ pc' = AfterChat(r)
              /\ response' = r
    /\ UNCHANGED <<config, user_query, rag_calls, graph, invoke_result>>
    /\ UNCHANGED <<calc, store, looping>>

Next ==
    \/ StartTurn
    \/ CallRag
    \/ SkipRag
    \/ CallFunctionAgent
    \/ SkipFunction
    \/ AgentNode
    \/ ModelRaises
    \/ ToolsNode
    \/ RecursionLimitHit
    \/ GraphEnd
    \/ CallChat

Spec == Init /\ [][Next]_vars

----------------------------------------------------------------------------
(* The calculator tool called on its own: function_agent.py lines 18-34 *)

\* No SimpleChatbot has been constructed.
NoChatbot ==
    /\ use_rag_agent = FALSE
    /\ rag_agent = FALSE
    /\ use_function_agent = FALSE
    /\ function_agent = FALSE
    /\ pc = "idle"
    /\ user_query = ""
    /\ attempts = <<>>
    /\ response = NoResult
    /\ rag_calls = NoRagCalls
    /\ messages = <<>>
    /\ node = "none"
    /\ steps = 0
    /\ inference_calls = 0
    /\ tool_runs = 0
    /\ tool_rounds = 0
    /\ llm = "any"
    /\ invoke_result = NoResult

\* The characters the expressions below are written with: digits, operators,
\* a blank, the two extra members of allowed_chars, and a letter outside it.
CalcAlphabet == {"0", "2", "+", "*", " ", "s", "\\", "a"}

\* The arguments: every short string over CalcAlphabet, and the named ones.
CalcInputs ==
    UNION {[1..n -> CalcAlphabet] : n \in 0..MaxExprLen}
        \cup {DocExample, ProductExpr, ZeroDivExpr}

CalcInit ==
    /\ NoChatbot
    /\ NoStoreOperation
    /\ NoLoop
    /\ calc_expression \in CalcInputs
    /\ evaluated = FALSE
    /\ calc_result = NoResult

\* calculator(expression) is called and returns.
CallCalculator ==
    /\ calc_result.kind = "none"
    /\ evaluated' = passes_whitelist(calc_expression)
    /\ calc_result' = Return(calculator(calc_expression))
    /\ UNCHANGED <<chatbot, calc_expression, store, looping>>

CalcNext == CallCalculator

CalcSpec == CalcInit /\ [][CalcNext]_vars

----------------------------------------------------------------------------
(* The adapter on its own: any sequence of RAGAgent operations *)

\* RAGAgent.__init__: the collection exists; here it starts empty.
StoreInit ==
    /\ NoChatbot
    /\ NoCalculatorCall
    /\ NoLoop
    /\ collection = <<>>
    /\ live = TRUE
    /\ last = NoOperation

\* Which collaborator calls succeed.  An operation ends at its first failing
\* call, so at most one call is made to fail; the answer to a duplicate id
\* matters only when everything else succeeds.
OneFails(flags) == Cardinality({i \in 1..Len(flags) : ~flags[i]}) <= 1
Envs ==
    {env \in [count_ok : BOOLEAN, embed_ok : BOOLEAN, add_ok : BOOLEAN,
              read_ok : BOOLEAN, duplicate : {"ignored", "raises"}] :
        /\ OneFails(<<env.count_ok, env.embed_ok, env.add_ok, env.read_ok>>)
        /\ env.duplicate = "raises"
              => (env.count_ok /\ env.embed_ok /\ env.add_ok /\ env.read_ok)}
QueryEnvs ==
    {env \in [embed_ok : BOOLEAN, query_ok : BOOLEAN, chat_ok : BOOLEAN] :
        OneFails(<<env.embed_ok, env.query_ok, env.chat_ok>>)}

\* add_document(content) or add_document(content, doc_id=...), called directly.
AddDocument ==
    /\ Len(collection) < MaxStore
    /\ \E content \in Contents, doc_id \in {None} \cup GivenIds,
          env \in {e \in Envs : e.read_ok} :
          LET r == add_document(collection, live, content, NoMetadata, doc_id, env)
          IN  /\ collection' = r.docs
              /\ last' = Operation("add_document",
                                   [content |-> content, doc_id |-> doc_id],
                                   r.result, r.calls, <<>>, Len(collection))
    /\ UNCHANGED <<chatbot, calc, live, looping>>

\* add_document_from_file(file_path)
AddDocumentFromFile ==
    /\ Len(collection) < MaxStore
    /\ \E path \in Paths, env \in Envs :
          LET r == add_document_from_file(collection, live, path, env)
          IN  /\ collection' = r.docs
              /\ last' = Operation("add_document_from_file", [path |-> path],
                                   r.result, r.calls, <<>>, Len(collection))
    /\ UNCHANGED <<chatbot, calc, live, looping>>

\* retrieve_documents(query, k), called directly.
RetrieveDocuments ==
    /\ \E query \in StoreQueries, k \in 1..top_k,
          env \in {e \in QueryEnvs : e.chat_ok} :
          \E r \in retrieve_documents(collection, live, query, k, env) :
              last' = Operation("retrieve_documents", [query |-> query, k |-> k],
                                r.result, r.calls, <<>>, Len(collection))
    /\ UNCHANGED <<chatbot, calc, collection, live, looping>>

\* generate_response(query, include_context)
GenerateResponse ==
    /\ \E query \in StoreQueries, include_context \in BOOLEAN, env \in QueryEnvs,
          content \in RagAnswers :
          \E got \in (IF include_context
                      THEN retrieve_documents(collection, live, query, top_k, env)
                      ELSE {Outcome(collection, Gives(<<>>), NoCalls)}) :
              LET retrieved == got.result.kind = "return"
                  asked == InferenceCalls(retrieved)
                  r == RagGenerateResponse(
                           ~include_context \/ env.embed_ok,
                           ~include_context \/ got.result.exc # "StoreError",
                           env.chat_ok, content)
              IN  last' = Operation(
                      "generate_response",
                      [query |-> query, include_context |-> include_context],
                      IF r.kind = "return" THEN Gives(r.text) ELSE Throws(r.text.body),
                      [got.calls EXCEPT
                          !.chat = asked,
                          !.raised = IF retrieved /\ ~env.chat_ok THEN "chat" ELSE @],
                      IF asked > 0
                      THEN Prompt(query, ContextParts(got.result.value))
                      ELSE <<>>,
                      Len(collection))
    /\ UNCHANGED <<chatbot, calc, collection, live, looping>>

\* list_documents()
ListDocuments ==
    /\ \E get_ok \in BOOLEAN :
          last' = Operation("list_documents", <<>>,
                            IF live /\ get_ok THEN Gives(Summaries(collection))
                            ELSE ListCatch,
                            Calls(0, 0, 0, 1, 0,
                                  IF live /\ get_ok THEN "none" ELSE "get"),
                            <<>>, Len(collection))
    /\ UNCHANGED <<chatbot, calc, collection, live, looping>>

\* delete_document(doc_id)
DeleteDocument ==
    /\ \E doc_id \in Ids(collection) \cup {GeneratedId(0)}, delete_ok \in BOOLEAN :
          /\ collection' = IF live /\ delete_ok
                           THEN collection_delete(collection, doc_id)
                           ELSE collection
          /\ last' = Operation("delete_document", [doc_id |-> doc_id],
                               IF live /\ delete_ok THEN Gives(TRUE) ELSE DeleteCatch,
                               Calls(0, 0, 0, 1, 0,
                                     IF live /\ delete_ok THEN "none" ELSE "delete"),
                               <<>>, Len(collection))
    /\ UNCHANGED <<chatbot, calc, live, looping>>

\* clear_collection(): delete_collection, then create_collection.  When the
\* first succeeds and the second raises, the collection is gone.
ClearCollection ==
    /\ \E delete_ok, create_ok \in BOOLEAN :
          LET deleted == live /\ delete_ok
          IN  /\ collection' = IF deleted THEN create_collection(collection)
                               ELSE collection
              /\ live' = IF deleted THEN create_ok ELSE live
              /\ last' = Operation("clear_collection", <<>>,
                                   IF deleted /\ create_ok THEN Gives(TRUE)
                                   ELSE ClearCatch,
                                   Calls(0, 0, 0, IF deleted THEN 2 ELSE 1, 0,
                                         IF ~deleted THEN "delete_collection"
                                         ELSE IF ~create_ok THEN "create_collection"
                                         ELSE "none"),
                                   <<>>, Len(collection))
    /\ UNCHANGED <<chatbot, calc, looping>>

\* get_collection_stats()
GetCollectionStats ==
    /\ \E count_ok, dimension_ok \in BOOLEAN :
          last' = Operation("get_collection_stats", <<>>,
                            IF ~(live /\ count_ok) THEN StatsCatch("StoreError")
                            ELSE IF ~dimension_ok THEN StatsCatch("EmbeddingError")
                            ELSE Gives(Stats(Len(collection))),
                            Calls(IF live /\ count_ok THEN 1 ELSE 0, 1, 0, 0, 0,
                                  IF ~(live /\ count_ok) THEN "count"
                                  ELSE IF ~dimension_ok THEN "dimension"
                                  ELSE "none"),
                            <<>>, Len(collection))
    /\ UNCHANGED <<chatbot, calc, collection, live, looping>>

StoreNext ==
    \/ AddDocument
    \/ AddDocumentFromFile
    \/ RetrieveDocuments
    \/ GenerateResponse
    \/ ListDocuments
    \/ DeleteDocument
    \/ ClearCollection
    \/ GetCollectionStats

StoreSpec == StoreInit /\ [][StoreNext]_vars

----------------------------------------------------------------------------
(* The interactive loop: main.py, chat_loop and _handle_rag_commands *)

\* str.lower(), for the capitals the lines below are written with
LowerCase(c) ==
    CASE c = "Q" -> "q" [] c = "U" -> "u" [] c = "I" -> "i" [] c = "T" -> "t"
      [] OTHER -> c
lower(text) == [i \in 1..Len(text) |-> LowerCase(text[i])]
\* Faulty variant of startswith: no line is taken for a command.
startswith_never(text, prefix) == FALSE

\* str.startswith(prefix)
startswith(text, prefix) ==
    Len(text) >= Len(prefix) /\ SubSeq(text, 1, Len(prefix)) = prefix
\* text[n:]
Slice(text, n) == SubSeq(text, n + 1, Len(text))
\* The str of a sequence of characters.
RECURSIVE Join(_)
Join(text) == IF text = <<>> THEN "" ELSE text[1] \o Join(Tail(text))
\* Path(file_path): the stem and the suffix of a file name without directories.
PathOf(text) ==
    LET dots == {i \in 2..Len(text) : text[i] = "."}
        d == IF dots = {} THEN Len(text) + 1
             ELSE CHOOSE i \in dots : \A j \in dots : j <= i
    IN  [stem |-> Join(SubSeq(text, 1, d - 1)),
         suffix |-> Join(SubSeq(text, d, Len(text)))]

QuitLine == <<"q", "u", "i", "t">>
AddDocPrefix == <<"a", "d", "d", "_", "d", "o", "c", " ">>
AddFilePrefix == <<"a", "d", "d", "_", "f", "i", "l", "e", " ">>
ListDocsLine == <<"l", "i", "s", "t", "_", "d", "o", "c", "s">>
ClearDocsLine == <<"c", "l", "e", "a", "r", "_", "d", "o", "c", "s">>
NotesName == <<"n", "o", "t", "e", "s", ".", "t", "x", "t">>
MissingName == <<"m", "i", "s", "s", "i", "n", "g", ".", "m", "d">>
\* The lines input() returns: quit as it is and in capitals with a blank in
\* front, the four commands, "add_doc " without a text, and a question.
Lines ==
    {QuitLine, <<" ", "Q", "U", "I", "T">>,
     AddDocPrefix \o ShortDoc, AddDocPrefix,
     AddFilePrefix \o NotesName, AddFilePrefix \o MissingName,
     ListDocsLine \o <<" ">>, ClearDocsLine, <<"h", "i">>}

\* main.py lines 114-118 and 126-130: the add calls are inside try/except; the
\* loop goes on to the next line whether they returned or raised.  Lines 136
\* and 148: list_documents and clear_collection are called bare; an exception
\* leaving them would leave chat_loop.
AfterCommandUncaught(result) ==
    IF result.kind = "raise" THEN "crashed" ELSE "input"

AfterAdd(result) == "input"
AfterBare(result) == IF result.kind = "raise" THEN "crashed" ELSE "input"

\* _handle_rag_commands, lines 111, 123, 135, 147: the command a line is.
Command(text) ==
    IF startswith(text, AddDocPrefix) THEN "add_doc"
    ELSE IF startswith(text, AddFilePrefix) THEN "add_file"
    ELSE IF text = ListDocsLine THEN "list_docs"
    ELSE IF text = ClearDocsLine THEN "clear_docs"
    ELSE "none"

\* chat_loop is called on a chatbot as __init__ left it; the collection of
\* its RAG agent starts empty.
LoopInit ==
    /\ use_rag_agent \in BOOLEAN
    /\ rag_agent \in BOOLEAN
    /\ rag_agent => use_rag_agent
    /\ use_function_agent \in BOOLEAN
    /\ function_agent \in BOOLEAN
    /\ function_agent => use_function_agent
    /\ pc = "idle"
    /\ user_query = ""
    /\ attempts = <<>>
    /\ response = NoResult
    /\ rag_calls = NoRagCalls
    /\ messages = <<>>
    /\ node = "none"
    /\ steps = 0
    /\ inference_calls = 0
    /\ tool_runs = 0
    /\ tool_rounds = 0
    /\ llm = "any"
    /\ invoke_result = NoResult
    /\ NoCalculatorCall
    /\ NoStoreOperation
    /\ user_input = <<>>
    /\ loop = "input"
    /\ turn_calls = <<>>

\* lines 91-95: the line read is "quit" in any case: the loop ends.
ReadQuit ==
    /\ loop = "input"
    /\ \E line \in Lines :
          /\ lower(strip(line)) = QuitLine
          /\ user_input' = strip(line)
    /\ loop' = "ended"
    /\ turn_calls' = <<>>
    /\ UNCHANGED <<chatbot, calc, store>>

\* lines 96-101 and 111-121: "add_doc <text>"
AddDocCommand ==
    /\ loop = "input"
    /\ use_rag_agent /\ rag_agent
    /\ Len(collection) < MaxStore
    /\ \E line \in Lines, env \in {e \in Envs : e.read_ok} :
          LET text == strip(line)
              doc_text == strip(Slice(text, 8))
              r == add_document(collection, live, doc_text, NoMetadata, None, env)
          IN  /\ lower(text) # QuitLine
              /\ Command(text) = "add_doc"
              /\ user_input' = text
              /\ IF doc_text # <<>>
                 THEN /\ collection' = r.docs
                      /\ last' = Operation("add_document",
                                           [content |-> doc_text, doc_id |-> None],
                                           r.result, r.calls, <<>>, Len(collection))
                      /\ turn_calls' = <<"add_document">>
                      /\ loop' = AfterAdd(r.result)
                 ELSE /\ UNCHANGED <<collection, last>>
                      /\ turn_calls' = <<>>
                      /\ loop' = "input"
    /\ UNCHANGED <<chatbot, calc, live>>

\* lines 96-101 and 123-133: "add_file <path>"
AddFileCommand ==
    /\ loop = "input"
    /\ use_rag_agent /\ rag_agent
    /\ Len(collection) < MaxStore
    /\ \E line \in Lines, env \in Envs :
          LET text == strip(line)
              file_path == strip(Slice(text, 9))
              r == add_document_from_file(collection, live, PathOf(file_path), env)
          IN  /\ lower(text) # QuitLine
              /\ Command(text) = "add_file"
              /\ user_input' = text
              /\ IF file_path # <<>>
                 THEN /\ collection' = r.docs
                      /\ last' = Operation("add_document_from_file",
                                           [path |-> PathOf(file_path)],
                                           r.result, r.calls, <<>>, Len(collection))
                      /\ turn_calls' = <<"add_document_from_file">>
                      /\ loop' = AfterAdd(r.result)
                 ELSE /\ UNCHANGED <<collection, last>>
                      /\ turn_calls' = <<>>
                      /\ loop' = "input"
    /\ UNCHANGED <<chatbot, calc, live>>

\* lines 96-101 and 135-145: "list_docs"
ListDocsCommand ==
    /\ loop = "input"
    /\ use_rag_agent /\ rag_agent
    /\ \E line \in Lines, get_ok \in BOOLEAN :
          LET text == strip(line)
              result == IF live /\ get_ok THEN Gives(Summaries(collection))
                        ELSE ListCatch
          IN  /\ lower(text) # QuitLine
              /\ Command(text) = "list_docs"
              /\ user_input' = text
              /\ last' = Operation("list_documents", <<>>, result,
                                   Calls(0, 0, 0, 1, 0,
                                         IF live /\ get_ok THEN "none" ELSE "get"),
                                   <<>>, Len(collection))
              /\ loop' = AfterBare(result)
    /\ turn_calls' = <<"list_documents">>
    /\ UNCHANGED <<chatbot, calc, collection, live>>

\* lines 96-101 and 147-152: "clear_docs"
ClearDocsCommand ==
    /\ loop = "input"
    /\ use_rag_agent /\ rag_agent
    /\ \E line \in Lines, delete_ok, create_ok \in BOOLEAN :
          LET text == strip(line)
              deleted == live /\ delete_ok
              result == IF deleted /\ create_ok THEN Gives(TRUE) ELSE ClearCatch
          IN  /\ lower(text) # QuitLine
              /\ Command(text) = "clear_docs"
              /\ user_input' = text
              /\ collection' = IF deleted THEN create_collection(collection)
                               ELSE collection
              /\ live' = IF deleted THEN create_ok ELSE live
              /\ last' = Operation("clear_collection", <<>>, result,
                                   Calls(0, 0, 0, IF deleted THEN 2 ELSE 1, 0,
                                         IF ~deleted THEN "delete_collection"
                                         ELSE IF ~create_ok THEN "create_collection"
                                         ELSE "none"),
                                   <<>>, Len(collection))
              /\ loop' = AfterBare(result)
    /\ turn_calls' = <<"clear_collection">>
    /\ UNCHANGED <<chatbot, calc>>

\* lines 102-103: any other line is given to generate_response.
Ask ==
    /\ loop = "input"
    /\ \E line \in Lines :
          LET text == strip(line)
          IN  /\ lower(text) # QuitLine
              /\ ~(use_rag_agent /\ rag_agent /\ Command(text) # "none")
              /\ user_input' = text
              /\ user_query' = Join(text)
    /\ loop' = "turn"
    /\ turn_calls' = <<"generate_response">>
    /\ pc' = "try_rag"
    /\ attempts' = <<>>
    /\ response' = NoResult
    /\ rag_calls' = NoRagCalls
    /\ messages' = <<>>
    /\ node' = "none"
    /\ steps' = 0
    /\ inference_calls' = 0
    /\ tool_runs' = 0
    /\ tool_rounds' = 0
    /\ llm' = "any"
    /\ invoke_result' = NoResult
    /\ UNCHANGED <<config, calc, store>>

\* line 104: generate_response returned, the answer is printed and the loop
\* reads the next line; response keeps the answer printed, the rest of the
\* turn is gone.  An exception leaving generate_response would leave chat_loop.
PrintResponse ==
    /\ loop = "turn"
    /\ pc \in {"done", "raised"}
    /\ loop' = IF pc = "done" THEN "input" ELSE "crashed"
    /\ pc' = "idle"
    /\ attempts' = <<>>
    /\ UNCHANGED response
    /\ rag_calls' = NoRagCalls
    /\ messages' = <<>>
    /\ node' = "none"
    /\ steps' = 0
    /\ inference_calls' = 0
    /\ tool_runs' = 0
    /\ tool_rounds' = 0
    /\ llm' = "any"
    /\ invoke_result' = NoResult
    /\ UNCHANGED <<config, user_query, calc, store, user_input, turn_calls>>

\* The steps of generate_response are the ones above, taken while a turn runs.
LoopNext ==
    \/ ReadQuit
    \/ AddDocCommand
    \/ AddFileCommand
    \/ ListDocsCommand
    \/ ClearDocsCommand
    \/ Ask
    \/ loop = "turn" /\ CallRag
    \/ loop = "turn" /\ SkipRag
    \/ loop = "turn" /\ CallFunctionAgent
    \/ loop = "turn" /\ SkipFunction
    \/ loop = "turn" /\ AgentNode
    \/ loop = "turn" /\ ModelRaises
    \/ loop = "turn" /\ ToolsNode
    \/ loop = "turn" /\ RecursionLimitHit
    \/ loop = "turn" /\ GraphEnd
    \/ loop = "turn" /\ CallChat
    \/ PrintResponse

LoopSpec == LoopInit /\ [][LoopNext]_vars

----------------------------------------------------------------------------
(* A chatbot with the function agent only, asked one question after another:
   FunctionCallerAgent.invoke is called once per question, main.py line 54 *)

InvokeInit ==
    /\ use_rag_agent = FALSE
    /\ rag_agent = FALSE
    /\ use_function_agent = TRUE
    /\ function_agent = TRUE
    /\ pc = "idle"
    /\ user_query = ""
    /\ attempts = <<>>
    /\ response = NoResult
    /\ rag_calls = NoRagCalls
    /\ messages = <<>>
    /\ node = "none"
    /\ steps = 0
    /\ inference_calls = 0
    /\ tool_runs = 0
    /\ tool_rounds = 0
    /\ llm = "any"
    /\ invoke_result = NoResult
    /\ NoCalculatorCall
    /\ NoStoreOperation
    /\ NoLoop

\* main.py lines 39-52: generate_response is called with the next question and,
\* RAG being off, comes to the function agent.  Nothing has touched what the
\* graph run before left behind.
NextQuestion ==
    /\ pc \in {"idle", "done"}
    /\ \E q \in Queries : user_query' = q
    /\ pc' = "try_function"
    /\ attempts' = <<>>
    /\ response' = NoResult
    /\ UNCHANGED <<config, rag_calls, graph, invoke_result>>
    /\ UNCHANGED <<calc, store, looping>>

InvokeNext ==
    \/ NextQuestion
    \/ CallFunctionAgent
    \/ AgentNode
    \/ ModelRaises
    \/ ToolsNode
    \/ RecursionLimitHit
    \/ GraphEnd

InvokeSpec == InvokeInit /\ [][InvokeNext]_vars

----------------------------------------------------------------------------
(* Properties *)

RagOn == use_rag_agent /\ rag_agent
FunctionOn == use_function_agent /\ function_agent
Attempted(strategy) == \E i \in 1..Len(attempts) : attempts[i].strategy = strategy
Rank(strategy) ==
    CASE strategy = "rag" -> 1 [] strategy = "function" -> 2 [] OTHER -> 3
Assistants == SelectSeq(messages, IsAssistant)
ToolMessages == SelectSeq(messages, IsTool)
Last(msgs) == msgs[Len(msgs)]

(* C1: when RAG is enabled and the embedding or store call of the RAG attempt
   raises, and tool-calling is enabled, the turn's text is the tool-calling
   result: the function agent is called and, when it succeeds, its result is
   returned, not an error text. *)
C1_FallbackToTools ==
    (/\ pc = "done"
     /\ RagOn
     /\ FunctionOn
     /\ (rag_calls.embed = "raise" \/ rag_calls.query = "raise"))
    => /\ Attempted("function")
       /\ (invoke_result.kind = "return" /\ ~IsErrorText(invoke_result.text))
            => (response = invoke_result /\ ~IsErrorText(response.text))

(* C2: the strategies are attempted in the order RAG, tool-calling, plain chat;
   a strategy is attempted only if it is enabled and every earlier enabled
   strategy raised; a strategy that returns ends the turn with its result and
   nothing is called after it. *)
C2_StrictOrder ==
    /\ \A i, j \in 1..Len(attempts) :
          i < j => Rank(attempts[i].strategy) < Rank(attempts[j].strategy)
    /\ \A i \in 1..Len(attempts) :
          /\ attempts[i].strategy = "rag" => RagOn
          /\ attempts[i].strategy = "function" => FunctionOn
          /\ (Rank(attempts[i].strategy) > 1 /\ RagOn)
                => \E j \in 1..(i - 1) : /\ attempts[j].strategy = "rag"
                                         /\ attempts[j].result.kind = "raise"
          /\ (Rank(attempts[i].strategy) > 2 /\ FunctionOn)
                => \E j \in 1..(i - 1) : /\ attempts[j].strategy = "function"
                                         /\ attempts[j].result.kind = "raise"
          /\ attempts[i].result.kind = "return"
                => /\ i = Len(attempts)
                   /\ pc = "done"
                   /\ response = attempts[i].result
    /\ pc = "done" => /\ attempts # <<>>
                      /\ Last(attempts).result.kind = "return"

C2_Witness ==
    /\ pc = "done"
    /\ ~RagOn
    /\ Len(attempts) = 1
    /\ attempts[1].strategy = "function"
    /\ attempts[1].result.kind = "return"
    /\ response = invoke_result

(* C3: generate_response never raises to its caller: every turn ends with a
   returned text, and when every attempted strategy failed that text is an
   error text. *)
C3_NeverRaises ==
    /\ pc # "raised"
    /\ pc = "done"
          => /\ response.kind = "return"
             /\ (\A i \in 1..Len(attempts) : attempts[i].failed)
                   => IsErrorText(response.text)

C3_Witness ==
    /\ pc = "done"
    /\ Len(attempts) = 1
    /\ attempts[1].strategy = "chat"
    /\ attempts[1].failed
    /\ response = Return(ErrText("Error generating response: ", "ollama failed"))

(* C4: with RAG and tool-calling both enabled and available, a turn that needs
   a tool ("What time is it?") is processed by the tool-calling agent: invoke
   is called and its result is what generate_response returns. *)
C4_CombinedUsesTools ==
    (pc = "done" /\ RagOn /\ FunctionOn /\ user_query = "What time is it?")
    => (Attempted("function") /\ response = invoke_result)

(* C5: when the first assistant message carries no tool call, the graph goes
   from "agent" to END after exactly one inference call, runs no tool, and
   invoke returns that message's content unchanged. *)
C5_NoToolCase ==
    (Assistants # <<>> /\ Assistants[1].tool_calls = <<>>)
    => /\ messages = <<SystemMessage, HumanMessage(user_query), Assistants[1]>>
       /\ node = END
       /\ ~ENABLED AgentNode
       /\ ~ENABLED ToolsNode
       /\ inference_calls = 1
       /\ tool_runs = 0
       /\ tool_rounds = 0
       /\ invoke_result \in {NoResult, Return(Assistants[1].content)}
       /\ pc = "done" => /\ invoke_result = Return(Assistants[1].content)
                         /\ response = invoke_result

C5_Witness ==
    /\ pc = "done"
    /\ Len(messages) = 3
    /\ messages[3] = AIMessage("answer A", <<>>)
    /\ inference_calls = 1
    /\ response = Return(Plain("answer A"))

(* C6: when the first response carries exactly one tool call and the second
   none, the state ends with exactly one tool message, whose tool_call_id is
   the id of that request, and the graph ends after two inference calls,
   invoke returning the second response's content. *)
C6_SingleToolCase ==
    (/\ Len(Assistants) >= 2
     /\ Len(Assistants[1].tool_calls) = 1
     /\ Assistants[2].tool_calls = <<>>)
    => /\ Len(messages) = 5
       /\ messages[3] = Assistants[1]
       /\ messages[5] = Assistants[2]
       /\ ToolMessages = <<messages[4]>>
       /\ messages[4].tool_call_id = Assistants[1].tool_calls[1].id
       /\ node = END
       /\ ~ENABLED AgentNode
       /\ ~ENABLED ToolsNode
       /\ inference_calls = 2
       /\ tool_rounds = 1
       /\ invoke_result \in {NoResult, Return(Assistants[2].content)}
       /\ pc = "done" => /\ invoke_result = Return(Assistants[2].content)
                         /\ response = invoke_result

C6_Witness ==
    /\ pc = "done"
    /\ Len(messages) = 5
    /\ Len(messages[3].tool_calls) = 1
    /\ messages[4].role = "tool"
    /\ messages[4].tool_call_id = messages[3].tool_calls[1].id
    /\ messages[5] = AIMessage("answer B", <<>>)
    /\ response = Return(Plain("answer B"))

\* The index of the message that opens the block of tool messages holding i:
\* the nearest message before i that is not a tool message.
BlockHead(i) ==
    CHOOSE a \in 1..(i - 1) :
        /\ messages[a].role # "tool"
        /\ \A k \in (a + 1)..(i - 1) : messages[k].role = "tool"

(* C7: in every conversation state every tool message answers exactly one
   request of the assistant message that immediately precedes its block: its
   tool_call_id is that request's id, no request of an earlier round is
   answered later and no request is answered twice. *)
C7_ResultsMatchRequests ==
    \A i \in 1..Len(messages) :
        messages[i].role = "tool"
        => /\ \E a \in 1..(i - 1) : messages[a].role # "tool"
           /\ LET a == BlockHead(i)
              IN  /\ messages[a].role = "assistant"
                  /\ i - a <= Len(messages[a].tool_calls)
                  /\ messages[i].tool_call_id = messages[a].tool_calls[i - a].id
                  /\ \A b \in 1..(a - 1) :
                        \A k \in 1..Len(messages[b].tool_calls) :
                            messages[b].tool_calls[k].id # messages[i].tool_call_id
           /\ \A j \in 1..Len(messages) :
                 (j # i /\ messages[j].role = "tool")
                 => messages[j].tool_call_id # messages[i].tool_call_id

C7_Witness ==
    /\ Len(messages) >= 8
    /\ Len(messages[3].tool_calls) = 2
    /\ messages[4].role = "tool"
    /\ messages[5].role = "tool"
    /\ Len(messages[6].tool_calls) = 2
    /\ messages[7].role = "tool"
    /\ messages[8].role = "tool"
    /\ messages[8].tool_call_id = messages[6].tool_calls[2].id

(* C8: the "tools" step, run when the last message is an assistant message with
   n >= 1 requests, appends exactly n tool messages, one per request in the
   requests' order, each with the tool's result text and the request's id, and
   the next node is "agent". *)
C8_ToolsStep ==
    [][(pc = "in_function" /\ node = "tools" /\ tool_rounds' # tool_rounds)
       => LET requests == Last(messages).tool_calls
              n == Len(requests)
          IN  /\ Last(messages).role = "assistant"
              /\ n >= 1
              /\ Len(messages') = Len(messages) + n
              /\ SubSeq(messages', 1, Len(messages)) = messages
              /\ \A i \in 1..n :
                    messages'[Len(messages) + i] =
                        [role |-> "tool",
                         content |-> RunTool(requests[i]),
                         tool_calls |-> <<>>,
                         tool_call_id |-> requests[i].id]
              /\ tool_runs' = tool_runs + n
              /\ node' = "agent"]_vars

C8_Witness ==
    /\ pc = "in_function"
    /\ node = "agent"
    /\ tool_rounds = 1
    /\ Len(messages) = 5
    /\ messages[3].tool_calls =
          <<[id |-> 1, name |-> "calculator", args |-> ZeroDivExpr],
            [id |-> 2, name |-> "get_current_time", args |-> <<>>]>>
    /\ messages[4] = ToolMessage(ErrText("Error: ", "division by zero"), 1)
    /\ messages[5] = ToolMessage(Plain("YYYY-MM-DD HH:MM:SS"), 2)

(* C9: invoke never raises to the orchestrator: when the model call raises, or
   the graph run is aborted, at any iteration of the loop, invoke returns an
   error text. *)
C9_InvokeNeverRaises ==
    /\ invoke_result.kind # "raise"
    /\ \A i \in 1..Len(attempts) :
          attempts[i].strategy = "function"
          => /\ attempts[i].result.kind # "raise"
             /\ attempts[i].failed
                   => /\ attempts[i].result.kind = "return"
                      /\ attempts[i].result.text.pre = "Error processing request: "
                      /\ invoke_result = attempts[i].result

C9_Witness ==
    /\ pc = "done"
    /\ tool_rounds >= 1
    /\ invoke_result =
          Return(ErrText("Error processing request: ", "model call failed"))
    /\ response = invoke_result

(* C10, as claimed: the loop has no maximum number of rounds, so with a chat
   model that requests tools on every response invoke never returns. *)
C10_NoRoundBound ==
    llm = "always_tools" => (invoke_result = NoResult /\ node \in {"agent", "tools"})

\* The assistant messages so far that carry tool calls.
Requesting == SelectSeq(Assistants, LAMBDA m : m.tool_calls # <<>>)

(* C10, amended: the graph code sets no bound and END is reached only by a
   response without tool calls, but the run is limited to RecursionLimit
   super-steps: every requesting response gets its "tools" round while steps
   remain, and with a chat model that requests tools on every response the run
   is aborted after 13 inference calls and 12 "tools" rounds, invoke returning
   the "Error processing request: " text. *)
C10_RecursionLimitBoundsLoop ==
    /\ node = END => (messages # <<>> /\ Last(messages).role = "assistant"
                        /\ Last(messages).tool_calls = <<>>)
    /\ steps <= RecursionLimit
    /\ steps = Len(Assistants) + tool_rounds
    /\ tool_rounds = Len(Requesting) - (IF node \in {"tools", "aborted"}
                                           /\ messages # <<>>
                                           /\ Last(messages).role = "assistant"
                                           /\ Last(messages).tool_calls # <<>>
                                        THEN 1 ELSE 0)
    /\ invoke_result = InvokeCatch("GraphRecursionError")
          => /\ steps = RecursionLimit
             /\ inference_calls = (RecursionLimit + 1) \div 2
             /\ tool_rounds = RecursionLimit \div 2
    /\ (llm = "always_tools" /\ invoke_result # NoResult)
          => /\ invoke_result = InvokeCatch("GraphRecursionError")
             /\ Len(Requesting) = inference_calls

C10_Witness ==
    /\ pc = "done"
    /\ llm = "always_tools"
    /\ inference_calls = 13
    /\ tool_rounds = 12
    /\ response = Return(ErrText("Error processing request: ", "GraphRecursionError"))

----------------------------------------------------------------------------
(* The calculator's character check *)

\* The characters the tool's description admits.
DocumentedChars == Digits \cup {"+", "-", "*", "/", "(", ")", ".", " "}
HasOutsideChar(e) == \E i \in 1..Len(e) : e[i] \notin DocumentedChars

(* C11: a calculator call on an expression with at least one character outside
   digits, + - * / ( ) . and the blank is rejected at the character check: the
   expression is not passed to eval and the call returns an "Error: ..." text. *)
C11_OutsideCharsNeverEvaluated ==
    (calc_result.kind # "none" /\ HasOutsideChar(calc_expression))
        => /\ ~evaluated
           /\ calc_result.kind = "return"
           /\ IsErrorText(calc_result.text)

(* C12: a calculator call on an expression written with digits, + - * / ( ) .
   and blanks only passes the character check and is evaluated; on the
   docstring's "2 + 3 * 4" it returns "14". *)
C12_DocumentedCharsEvaluated ==
    (calc_result.kind # "none" /\ ~HasOutsideChar(calc_expression))
        => /\ evaluated
           /\ calc_expression = DocExample => calc_result = Return(Plain("14"))

----------------------------------------------------------------------------
(* Tool failures inside the graph run *)

\* The tool cannot compute a value for the request: the character check
\* rejects the expression, or eval raises.
ToolFails(request) ==
    /\ request.name = "calculator"
    /\ ~passes_whitelist(request.args) \/ ~eval(request.args).ok

\* A request of the run that fails, in a round the "tools" node has run.
FailedRequestAt(a, i) ==
    /\ a \in 1..Len(messages)
    /\ i \in 1..Len(messages[a].tool_calls)
    /\ ToolFails(messages[a].tool_calls[i])
    /\ Len(messages) > a

AsRequest(e) == [id |-> 1, name |-> "calculator", args |-> e]

(* C13: a failing tool is data for the loop.  The tool's output for a failing
   request (invalid characters, malformed expression, division by zero) is an
   "Error: ..." text; the "tools" step appends an ordinary tool message with
   that text and the request's id, and goes on to "agent" as after a success;
   invoke returns the top-level "Error processing request: " text only for a
   failed model call or the recursion limit, never for a failed tool. *)
C13_ToolFailuresAreData ==
    /\ [](/\ ToolOutputs(<<AsRequest(DocExample)>>) =
                <<ToolMessage(ErrText("Error: ", "Invalid characters in expression"), 1)>>
          /\ ToolOutputs(<<AsRequest(MalformedExpr)>>) =
                <<ToolMessage(ErrText("Error: ", "invalid syntax (<string>, line 1)"), 1)>>
          /\ ToolOutputs(<<AsRequest(ZeroDivExpr)>>) =
                <<ToolMessage(ErrText("Error: ", "division by zero"), 1)>>
          /\ \A a \in 1..Len(messages) : \A i \in 1..Len(messages[a].tool_calls) :
                FailedRequestAt(a, i)
                    => /\ messages[a + i].role = "tool"
                       /\ messages[a + i].content.pre = "Error: "
                       /\ messages[a + i].tool_call_id = messages[a].tool_calls[i].id
                       /\ messages[a + i].tool_calls = <<>>
          /\ (invoke_result.kind = "return"
                /\ invoke_result.text.pre = "Error processing request: ")
                => invoke_result.text.body \in {"model call failed", "GraphRecursionError"}
          /\ invoke_result.kind \in {"none", "return"})
    /\ [][(pc = "in_function" /\ node = "tools" /\ tool_rounds' # tool_rounds)
            => /\ node' = "agent"
               /\ pc' = "in_function"
               /\ invoke_result' = NoResult
               /\ Len(messages') = Len(messages) + Len(Last(messages).tool_calls)]_vars

\* A division by zero was answered with an "Error: ..." tool message, the model
\* was called again, and invoke returned the model's final answer.
C13_Witness ==
    /\ pc = "done"
    /\ \E a \in 1..Len(messages) :
          /\ FailedRequestAt(a, 1)
          /\ messages[a].tool_calls[1].args = ZeroDivExpr
          /\ messages[a + 1] = ToolMessage(ErrText("Error: ", "division by zero"),
                                           messages[a].tool_calls[1].id)
    /\ Last(messages).role = "assistant"
    /\ invoke_result = Return(Last(messages).content)
    /\ response = invoke_result

----------------------------------------------------------------------------
(* RAGAgent.generate_response on its own *)

Generated == last.op = "generate_response"
RetrievalRaised == last.calls.raised \in {"embed", "query"}

(* C14 as stated: every call of RAGAgent.generate_response calls ollama exactly
   once, with or without context, and also when the embedding call or the
   store query raises. *)
C14_ExactlyOneInferenceCall ==
    Generated => last.calls.chat = 1

(* C14: a call of RAGAgent.generate_response calls ollama at most once: exactly
   once when include_context is false or the retrieval returns (with documents
   or without), and not at all when the embedding call or the store query
   raises; it then returns the "Error generating RAG response: " text. *)
C14_OneInferenceCallUnlessRetrievalRaises ==
    Generated
        => /\ last.calls.chat \in {0, 1}
           /\ last.calls.chat = 1 <=> ~RetrievalRaised
           /\ ~last.args.include_context
                => (last.calls.embed = 0 /\ last.calls.other = 0 /\ ~RetrievalRaised)
           /\ last.calls.chat = 1 <=> last.prompt # <<>>
           /\ RetrievalRaised
                => /\ last.args.include_context
                   /\ last.result.kind = "return"
                   /\ last.result.value.pre = "Error generating RAG response: "

\* The store query raised with two documents stored: ollama was not called.
C14_Witness ==
    /\ Generated
    /\ Len(collection) = 2
    /\ last.calls.raised = "query"
    /\ last.calls.embed = 1
    /\ last.calls.chat = 0
    /\ last.result = Gives(ErrText("Error generating RAG response: ",
                                   "store query failed"))

(* C15: RAGAgent.generate_response never lets an exception out: when the
   embedding call, the store query or ollama raises it returns the "Error
   generating RAG response: " text, and otherwise the model's answer. *)
C15_RagNeverPropagates ==
    Generated
        => /\ last.result.kind = "return"
           /\ last.calls.raised \in {"embed", "query", "chat"}
                => last.result.value.pre = "Error generating RAG response: "
           /\ last.calls.raised = "none"
                => last.result.value \in {Plain(c) : c \in RagAnswers}

\* ollama raised after a retrieval that returned a document.
C15_Witness ==
    /\ Generated
    /\ collection # <<>>
    /\ last.calls.raised = "chat"
    /\ last.calls.chat = 1
    /\ last.result = Gives(ErrText("Error generating RAG response: ",
                                   "ollama failed"))

----------------------------------------------------------------------------
(* RAGAgent.retrieve_documents *)

Retrieved == last.op = "retrieve_documents" /\ last.calls.raised = "none"
Smaller(a, b) == IF a < b THEN a ELSE b

(* C16: retrieve_documents(query, k) with k >= 1 returns at most k documents
   in order of non-decreasing distance, whatever the collection holds: all of
   its documents when it holds fewer than k, none when it is empty.  Each
   returned document is a stored one with its distance to the query, and no
   stored document left out is nearer than a returned one. *)
C16_RetrieveSortedAtMostK ==
    Retrieved
        => LET found == last.result.value
               qe == Embed(last.args.query)
           IN  /\ last.result.kind = "return"
               /\ last.args.k >= 1
               /\ Len(found) <= last.args.k
               /\ Len(found) = Smaller(last.args.k, Len(collection))
               /\ \A i, j \in 1..Len(found) :
                     i < j => /\ found[i].distance <= found[j].distance
                              /\ found[i].id # found[j].id
               /\ \A i \in 1..Len(found) : \E x \in 1..Len(collection) :
                     /\ found[i].id = collection[x].id
                     /\ found[i].content = collection[x].content
                     /\ found[i].metadata = collection[x].metadata
                     /\ found[i].distance = Distance(qe, Embed(collection[x].content))
               /\ \A x \in 1..Len(collection) :
                     (\A i \in 1..Len(found) : found[i].id # collection[x].id)
                        => \A i \in 1..Len(found) :
                              found[i].distance
                                 <= Distance(qe, Embed(collection[x].content))

\* Two documents are stored and one is asked for: the nearer one is returned,
\* and it is not the one stored first.
C16_Witness ==
    /\ Retrieved
    /\ Len(collection) = 2
    /\ last.args.k = 1
    /\ Len(last.result.value) = 1
    /\ last.result.value[1].id = collection[2].id
    /\ last.result.value[1].distance
          < Distance(Embed(last.args.query), Embed(collection[1].content))

----------------------------------------------------------------------------
(* Adding, listing and clearing *)

Listed == last.op = "list_documents" /\ last.calls.raised = "none"
Blank(text) == \A i \in 1..Len(text) : text[i] \in Whitespace
ExpectedPreview(text) ==
    IF Len(text) <= PreviewLen THEN text
    ELSE [i \in 1..(PreviewLen + 3) |-> IF i <= PreviewLen THEN text[i] ELSE "."]

(* C17: whatever the collection holds, when add_document(content) with
   non-blank content (and no id given) returns an id and list_documents() is
   called next, the
   list has an entry with that id whose content is the preview of the content
   just added: all of it up to 200 characters, else its first 200 characters
   followed by "...". *)
C17_AddThenListShowsDocument ==
    [][(/\ last.op = "add_document"
        /\ last.args.doc_id = None
        /\ last.result.kind = "return"
        /\ ~Blank(last.args.content)
        /\ last'.op = "list_documents"
        /\ last'.calls.raised = "none")
       => \E i \in 1..Len(last'.result.value) :
             /\ last'.result.value[i].id = last.result.value
             /\ last'.result.value[i].content = ExpectedPreview(last.args.content)]_vars


Cleared == last.op = "clear_collection" /\ last.result = Gives(TRUE)

(* C18: a clear_collection() that returns True leaves the collection under its
   name and empty, whatever was added and deleted before: a list_documents()
   called next returns the empty list and a get_collection_stats() called next
   reports 0 documents in the collection of the same name. *)
C18_ClearEmptiesCollection ==
    /\ [](Cleared => (collection = <<>> /\ live /\ last.calls.raised = "none"))
    /\ [][(/\ Cleared
           /\ last'.op = "list_documents"
           /\ last'.calls.raised = "none")
          => last'.result = Gives(<<>>)]_vars
    /\ [][(/\ Cleared
           /\ last'.op = "get_collection_stats"
           /\ last'.calls.raised = "none")
          => /\ last'.result.kind = "return"
             /\ last'.result.value.total_documents = 0
             /\ last'.result.value.collection_name = "documents"]_vars

\* Two documents were stored when the clear began; it returned True.
C18_Witness ==
    /\ Cleared
    /\ last.before = 2
    /\ collection = <<>>
    /\ live


BlankAdd(operation) ==
    operation.op = "add_document" /\ Blank(operation.args.content)

(* C19: add_document with an empty or whitespace-only content raises the
   validation error (ValueError) before it touches a collaborator: the
   embedding model is not called, the collection is neither counted nor
   written, and the stored documents are what they were. *)
C19_BlankAddTouchesNothing ==
    /\ [](BlankAdd(last)
            => /\ last.result = Throws("ValueError")
               /\ last.calls = NoCalls
               /\ Len(collection) = last.before)
    /\ [][BlankAdd(last') => (collection' = collection /\ live' = live)]_vars

\* A whitespace-only content was refused while a document was stored.
C19_Witness ==
    /\ BlankAdd(last)
    /\ last.args.content = SpacesDoc
    /\ last.result = Throws("ValueError")
    /\ Len(collection) = 1


Adding == last.op \in {"add_document", "add_document_from_file"}
Failed == last.calls.raised # "none"

(* C20 as stated: apart from the validation of an empty content, an adapter
   operation in which a collaborator call fails (or whose source path does not
   exist) returns a failure value and raises nothing: add_document with
   non-blank content, add_document_from_file, list_documents, delete_document,
   clear_collection and get_collection_stats. *)
C20_FailuresAreReturned ==
    (/\ last.op \in {"add_document", "add_document_from_file", "list_documents",
                     "delete_document", "clear_collection", "get_collection_stats"}
     /\ Failed
     /\ ~BlankAdd(last))
        => last.result.kind = "return"

(* C20: list_documents, delete_document, clear_collection and
   get_collection_stats never raise: when their collaborator call fails they
   return [], False, False and a dict with the key "error".  add_document with
   non-blank content and add_document_from_file catch nothing: a failing
   embedding or collection call, a missing path or an unreadable file raises
   out of them, and nothing is stored. *)
C20_OnlyReadAndDeleteReturnFailures ==
    /\ last.op = "list_documents"
          => last.result = IF Failed THEN Gives(<<>>) ELSE Gives(Summaries(collection))
    /\ last.op = "delete_document"
          => last.result = Gives(~Failed)
    /\ last.op = "clear_collection"
          => last.result = Gives(~Failed)
    /\ last.op = "get_collection_stats"
          => /\ last.result.kind = "return"
             /\ Failed <=> DOMAIN last.result.value = {"error"}
             /\ ~Failed => last.result.value.total_documents = Len(collection)
    /\ (Adding /\ Failed)
          => /\ last.result.kind = "raise"
             /\ last.result.exc \in {"EmbeddingError", "StoreError",
                                      "FileNotFoundError", "OSError"}
             /\ Len(collection) = last.before
    /\ (last.op = "add_document_from_file" /\ last.args.path = MissingFile)
          => last.result = Throws("FileNotFoundError")

\* The embedding call failed inside add_document with a non-blank content:
\* the exception left add_document.
C20_Witness ==
    /\ last.op = "add_document"
    /\ last.args.content = ShortDoc
    /\ last.calls.raised = "embed"
    /\ last.result = Throws("EmbeddingError")
    /\ Len(collection) = 1

----------------------------------------------------------------------------
(* Ids *)

AddReturned(operation) ==
    /\ operation.op \in {"add_document", "add_document_from_file"}
    /\ operation.result.kind = "return"

(* C21: after any sequence of add_document (with an id given or generated),
   add_document_from_file, delete_document and clear_collection, no two
   stored documents have the same id, and an add that returns leaves every
   document stored before it in the collection with its id and its content. *)
C21_IdsUnique ==
    /\ [](\A i, j \in 1..Len(collection) :
             collection[i].id = collection[j].id => i = j)
    /\ [][AddReturned(last')
          => \A i \in 1..Len(collection) :
                \E j \in 1..Len(collection') :
                    /\ collection'[j].id = collection[i].id
                    /\ collection'[j].content = collection[i].content]_vars

\* add_document returned the id it was given although a document with another
\* content was stored under that id: the stored one is still there.
C21_Witness ==
    /\ last.op = "add_document"
    /\ last.result.kind = "return"
    /\ last.args.doc_id = "sample_0"
    /\ last.args.content = LongDoc
    /\ last.result = Gives("sample_0")
    /\ last.before = 1
    /\ Len(collection) = 1
    /\ collection[1].id = "sample_0"
    /\ collection[1].content = ShortDoc


(* C22: whatever the collection holds, when add_document(content) without an
   id returns an id and delete_document(id) is called next (and its collection
   call does not fail), the delete returns True and the collection is what it
   was before the add: a list_documents() afterwards has as many entries as
   there were documents before the add, with the same ids (each of them was
   stored after the add, and none is the id just deleted). *)
C22_AddThenDeleteRestores ==
    [][(/\ last.op = "add_document"
        /\ last.args.doc_id = None
        /\ last.result.kind = "return"
        /\ last'.op = "delete_document"
        /\ last'.args.doc_id = last.result.value
        /\ last'.calls.raised = "none")
       => /\ last'.result = Gives(TRUE)
          /\ Len(Summaries(collection')) = last.before
          /\ \A i \in 1..Len(collection') :
                /\ collection'[i].id # last.result.value
                /\ collection'[i].id \in Ids(collection)]_vars

----------------------------------------------------------------------------
(* The chat loop *)

Quitting(text) == lower(text) = QuitLine

\* A step of the running turn, or the print that ends it, can be taken.
TurnCanStep ==
    \/ pc \in {"try_rag", "try_function", "try_chat", "done"}
    \/ /\ pc = "in_function"
       /\ \/ node = END
          \/ node \in {"agent", "tools"} /\ OutOfSteps(steps)
          \/ node = "tools"
          \/ node = "agent" /\ ModelResponses(messages, llm) # {}

(* C23: chat_loop survives every failed turn.  No exception leaves the loop;
   it ends only on a line that is "quit"; after a management command
   (add_doc, add_file, list_docs, clear_docs), whether its adapter call
   returned, failed or raised, and after a turn of generate_response, whether
   a strategy answered or every strategy failed, the loop is back at input(),
   where the next line is read; and a turn that has begun can always take
   its next step. *)
C23_LoopSurvivesFailedTurns ==
    /\ [](loop # "crashed")
    /\ [](loop = "ended" => Quitting(user_input))
    /\ [](loop = "turn" => TurnCanStep)
    /\ [][(loop = "input" /\ ~Quitting(user_input'))
             => loop' \in {"input", "turn"}]_vars
    /\ [][loop = "turn" => loop' \in {"turn", "input"}]_vars

\* With no agent, the plain chat call failed: the turn ended with the error
\* text, and the loop is at input() again.
C23_Witness ==
    /\ loop = "input"
    /\ ~rag_agent
    /\ ~function_agent
    /\ turn_calls = <<"generate_response">>
    /\ response = ChatCatch("ollama failed")

----------------------------------------------------------------------------
(* The prompt *)

Asked == last.op = "generate_response" /\ last.calls.chat = 1
\* The source a stored document is quoted under.
SourceOf(doc) ==
    IF \E item \in doc.metadata : item[1] = "source"
    THEN (CHOOSE item \in doc.metadata : item[1] = "source")[2]
    ELSE "unknown"

(* C24: the one user message RAGAgent.generate_response sends to the model.
   With include_context true and a collection that is not empty, it is the
   context template holding the query and one part per retrieved document -
   the top_k nearest, nearest first - each part the document's content under
   its source metadata, "unknown" when it has none.  With an empty collection,
   or with include_context false, it is exactly the query; with include_context
   false neither the embedding model nor the collection is called. *)
C24_PromptAssembly ==
    Asked =>
        /\ last.prompt.question = last.args.query
        /\ (last.args.include_context /\ collection # <<>>)
              => /\ last.prompt.template = "context"
                 /\ \E r \in Nearest(collection, Embed(last.args.query), top_k) :
                       /\ Len(last.prompt.context) = Len(r)
                       /\ \A i \in 1..Len(r) :
                             /\ last.prompt.context[i].content = collection[r[i]].content
                             /\ last.prompt.context[i].source = SourceOf(collection[r[i]])
        /\ (~last.args.include_context \/ collection = <<>>)
              => /\ last.prompt.template = "bare"
                 /\ last.prompt.context = <<>>
        /\ ~last.args.include_context
              => /\ last.calls.embed = 0
                 /\ last.calls.count + last.calls.add + last.calls.other = 0

\* Two documents are stored, one from a file and one added without metadata;
\* both were retrieved and quoted, the nearer one first.
C24_Witness ==
    /\ Asked
    /\ last.args.include_context
    /\ last.args.query = <<"b", "b">>
    /\ Len(collection) = 2
    /\ Len(last.prompt.context) = 2
    /\ last.prompt.context[1].source = "unknown"
    /\ last.prompt.context[1].content = ShortDoc
    /\ last.prompt.context[2].source = "notes.txt"

----------------------------------------------------------------------------
(* The state of a graph run *)

IsPrefix(a, b) == Len(a) <= Len(b) /\ SubSeq(b, 1, Len(a)) = a
Added(a, b) == SubSeq(b, Len(a) + 1, Len(b))

(* C25: no conversation state is carried from one FunctionCallerAgent.invoke
   to the next.  Whatever the run before left behind, an invoke starts the
   graph at "agent" with exactly two messages, the system message and the
   human message of its own argument; during the run these stay the first
   two; every step of the run leaves the messages it found in place and in
   order: the "agent" step adds one assistant message behind them, the
   "tools" step adds tool messages only, and the steps that end the run add
   nothing. *)
C25_NoStateAcrossInvocations ==
    /\ [][(pc = "try_function" /\ pc' = "in_function")
          => /\ messages' = <<SystemMessage, HumanMessage(user_query)>>
             /\ node' = "agent"]_vars
    /\ [](pc = "in_function"
            => /\ Len(messages) >= 2
               /\ messages[1] = SystemMessage
               /\ messages[2] = HumanMessage(user_query))
    /\ [][pc = "in_function"
          => /\ IsPrefix(messages, messages')
             /\ (node = "agent" /\ messages' # messages)
                   => /\ Len(messages') = Len(messages) + 1
                      /\ IsAssistant(messages'[Len(messages')])
             /\ node = "tools"
                   => \A i \in 1..Len(Added(messages, messages')) :
                         IsTool(Added(messages, messages')[i])
             /\ pc' # "in_function" => messages' = messages]_vars

\* An invoke is about to start while the messages of the run before, which
\* ran tools for another question, are still there.
C25_Witness ==
    /\ pc = "try_function"
    /\ function_agent
    /\ Len(messages) >= 4
    /\ \E i \in 1..Len(messages) : IsTool(messages[i])
    /\ messages[2] # HumanMessage(user_query)

----------------------------------------------------------------------------
(* Management commands *)

Begins(text, prefix) ==
    /\ Len(text) >= Len(prefix)
    /\ \A i \in 1..Len(prefix) : text[i] = prefix[i]
Management(text) ==
    \/ Begins(text, AddDocPrefix)
    \/ Begins(text, AddFilePrefix)
    \/ text = ListDocsLine
    \/ text = ClearDocsLine

(* C26: with the RAG agent enabled and there, every line read (stripped, and
   not quit) that begins with "add_doc " makes the loop call add_document
   once, one that begins with "add_file " add_document_from_file once,
   "list_docs" list_documents once and "clear_docs" clear_collection once;
   none of them reaches generate_response or the model.  Every other line is
   given, as it is, to generate_response once, and no adapter operation is
   called for it by the loop. *)
C26_CommandsMapToOperations ==
    [][(loop = "input" /\ use_rag_agent /\ rag_agent /\ ~Quitting(user_input'))
       => /\ (Begins(user_input', AddDocPrefix)
                => /\ turn_calls' = <<"add_document">>
                   /\ last'.op = "add_document"
                   /\ last'.args.content = Slice(user_input', Len(AddDocPrefix)))
          /\ (Begins(user_input', AddFilePrefix)
                => /\ turn_calls' = <<"add_document_from_file">>
                   /\ last'.op = "add_document_from_file")
          /\ (user_input' = ListDocsLine
                => /\ turn_calls' = <<"list_documents">>
                   /\ last'.op = "list_documents")
          /\ (user_input' = ClearDocsLine
                => /\ turn_calls' = <<"clear_collection">>
                   /\ last'.op = "clear_collection")
          /\ (Management(user_input')
                => /\ loop' # "turn"
                   /\ pc' = "idle"
                   /\ last'.calls.chat = 0
                   /\ UNCHANGED chatbot)
          /\ (~Management(user_input')
                => /\ turn_calls' = <<"generate_response">>
                   /\ loop' = "turn"
                   /\ pc' = "try_rag"
                   /\ user_query' = Join(user_input')
                   /\ UNCHANGED store)]_vars

\* "add_file missing.md" was read: add_document_from_file was called, once,
\* raised, and the loop is at input() again without a turn of the model.
C26_Witness ==
    /\ loop = "input"
    /\ use_rag_agent /\ rag_agent
    /\ user_input = AddFilePrefix \o MissingName
    /\ turn_calls = <<"add_document_from_file">>
    /\ last.op = "add_document_from_file"
    /\ last.result = Throws("FileNotFoundError")
    /\ pc = "idle"

----------------------------------------------------------------------------
(* Generated ids *)

\* Every stored document was added without an id.
OnlyGenerated ==
    \A i \in 1..Len(collection) :
        \E n \in 0..MaxStore : collection[i].id = GeneratedId(n)

(* C27: in a collection filled by add_document without an id, after any
   adds and deletes, the id the next add_document would generate from the
   count of the collection, "doc_<count>", is the id of no stored document. *)
C27_GeneratedIdsFresh ==
    OnlyGenerated => GeneratedId(Len(collection)) \notin Ids(collection)

----------------------------------------------------------------------------
(* A clear that fails *)

(* C28: when clear_collection() returns False, because delete_collection or
   create_collection raised, on an adapter whose collection exists, the
   stored documents are what they were before the call and the adapter still
   refers to a collection that exists. *)
C28_FailedClearKeepsData ==
    [][(/\ live
        /\ last'.op = "clear_collection"
        /\ last'.result = Gives(FALSE))
       => (collection' = collection /\ live')]_vars

====
